---- MODULE Spec2Model ----
(***************************************************************************)
(* Cross-chart filter coordination of the job-market dashboard.            *)
(*                                                                         *)
(* The FilterProvider store (filters, activeItem) is shared by four chart  *)
(* components: SalaryJobTitleRidgeline (RG), SalaryLocationIndustryBarChart*)
(* (BC), HiringPulseChart (HP) and JobPostingsTimeLine (TL, in its         *)
(* filter-menu variant and in its selectedLevels variant).                 *)
(*                                                                         *)
(* One action is one callback: a DOM/React event handler, one React commit *)
(* of a chart (the component function plus the effects whose dependencies  *)
(* changed, in declaration order), or a timer callback.  dirty[c] holds    *)
(* the dependencies of chart c that changed since its last commit; input   *)
(* events are dispatched once every chart has committed.  Handlers bound   *)
(* by d3 inside a draw effect see the values captured when that effect     *)
(* last ran; where the effect's dependency list omits the store, the       *)
(* captured value is kept in its own variable.                             *)
(*                                                                         *)
(* Spec is the dashboard with all four charts.  The charts interact only   *)
(* through the store, and a chart whose data never arrives takes no step,  *)
(* so the properties are checked on the pages SpecRidgelinePulse,          *)
(* SpecBarChart, SpecTimeline, SpecBarRidgeline and SpecTimelinePulse,     *)
(* whose behaviours are behaviours of Spec.                                *)
(***************************************************************************)
EXTENDS Integers, Sequences, FiniteSets, TLC

\* ---------------------------------------------------------------- data --
\* The payloads handed to the charts once loading has finished.
JobTitles        == <<"Data Scientist">>
Industries       == <<"Technology", "Healthcare">>
Locations        == <<"New York">>
ExperienceLevels == <<"Entry-level", "Senior-level">>
TimePoints       == <<"2023-01", "2023-02">>

\* Upper bound on the restore timers pending at one time.
MaxTimers == 1

Charts == {"RG", "BC", "HP", "TL"}

\* ------------------------------------------------------------- helpers --
ToSet(s) == {s[i] : i \in 1..Len(s)}

\* Array.prototype.includes
Includes(s, v) == \E i \in 1..Len(s) : s[i] = v

\* Array.prototype.filter(x => x !== v)
Without(s, v) == SelectSeq(s, LAMBDA x : x # v)

\* Array.prototype.filter(x => other.includes(x))
Within(s, other) == SelectSeq(s, LAMBDA x : Includes(other, x))

\* [...s, v] whether or not s includes v
ToggleInAppending(s, v) == Append(s, v)

\* includes(v) ? filter(x => x !== v) : [...s, v]
ToggleIn(s, v) == IF Includes(s, v) THEN Without(s, v) ELSE Append(s, v)

\* --------------------------------------------------------------- store --
EmptyFilters ==
    [experienceLevels |-> <<>>, locations |-> <<>>,
     industries |-> <<>>, employmentTypes |-> <<>>]

NoItem == [type |-> "null", value |-> "null"]

Item(t, v) == [type |-> t, value |-> v]

\* useState setter of the provider: the argument replaces the whole value.
setFiltersMerging(prev, next) ==
    [f \in DOMAIN prev |-> IF next[f] = <<>> THEN prev[f] ELSE next[f]]

setFilters(prev, next) == next

setActiveItem(prev, next) == next

\* ---------------------------------------------------------- the pointer --
NoEl == [chart |-> "none", el |-> "none", value |-> "none", time |-> "none"]

El(c, e, v) == [chart |-> c, el |-> e, value |-> v, time |-> "none"]

PointEl(l, t) == [chart |-> "TL", el |-> "point", value |-> l, time |-> t]

VARIABLES
    filters,                 \* FilterProvider: filters
    activeItem,              \* FilterProvider: activeItem
    written,                 \* argument of the most recent setFilters call
    loading,                 \* isLoading prop of each chart
    dirty,                   \* changed dependencies of each chart
    hover,                   \* chart element under the pointer
    last,                    \* most recent user event
    rgFilters,               \* RG: filters captured by the draw effect
    rowOpacity,              \* RG: opacity attribute of the IQR boxes (x10)
    activeIndustries,        \* BC: activeIndustries
    bcFilters,               \* BC: filters captured by the draw effect
    barOpacity,              \* BC: opacity attribute of the bars (x10)
    viewMode,                \* HP: viewMode
    variant,                 \* TL: which JobPostingsTimeLine is mounted
    visibleExperienceLevels, \* TL: visibleExperienceLevels
    selectedLevels,          \* TL: selectedLevels (selectedLevels variant)
    brushExtent,             \* TL: brushExtent
    isFilterMenuOpen,        \* TL: isFilterMenuOpen (filter-menu variant)
    timers,                  \* TL: pending 100 ms restore callbacks
    lineClass,               \* TL: class of each .timeline-line
    pointSelected,           \* TL: data points carrying class "selected"
    props,                   \* data and isLoading each chart was rendered with
    view,                    \* what the render of each chart returned
    evaluated,               \* derivations the render and its effects ran
    arg,                     \* input of the function under evaluation
    res                      \* its result

storeVars == <<filters, activeItem, written>>
rgVars    == <<rgFilters, rowOpacity>>
bcVars    == <<activeIndustries, bcFilters, barOpacity>>
hpVars    == <<viewMode>>
tlVars    == <<variant, visibleExperienceLevels, selectedLevels, brushExtent,
               isFilterMenuOpen, timers, lineClass, pointSelected>>

propVars  == <<props, view, evaluated>>
fnVars    == <<arg, res>>

vars == <<filters, activeItem, written, loading, dirty, hover, last,
          rgFilters, rowOpacity, activeIndustries, bcFilters, barOpacity,
          viewMode, variant, visibleExperienceLevels, selectedLevels,
          brushExtent, isFilterMenuOpen, timers, lineClass, pointSelected,
          props, view, evaluated, arg, res>>

\* ---------------------------------------------------------- scheduling --
\* Every consumer of the context re-renders when the provider value changes;
\* a chart that is still loading returns from each effect at once, so its
\* changed dependencies need not be remembered (the load marks them all).
Marked(chart, own, ctx) ==
    [c \in Charts |->
        IF loading[c] THEN {}
        ELSE dirty[c] \cup ctx \cup (IF c = chart THEN own ELSE {})]

\* After a commit of chart, own are the updates its effects scheduled.
Committed(chart, own, ctx) ==
    [c \in Charts |->
        IF c = chart THEN own \cup ctx
        ELSE IF loading[c] THEN {}
        ELSE dirty[c] \cup ctx]

\* The bar chart's default-selection effect re-arms itself for as long as
\* activeIndustries is empty and no member of filters.industries is an
\* industry of the data: every run stores a new (empty) array.
BCLoops ==
    /\ dirty["BC"] = {"local"}
    /\ activeIndustries = <<>>
    /\ Len(filters.industries) > 0
    /\ Within(filters.industries, Industries) = <<>>

\* Chart c has nothing left to commit ("brush" is the brush's own re-emitted
\* end event, which changes no value a handler reads).
Settled(c) ==
    \/ loading[c]
    \/ dirty[c] \subseteq {"brush"}
    \/ c = "BC" /\ BCLoops

\* React commits every pending update and runs the effects before the next
\* input event is dispatched: a handler of chart c runs when c is mounted
\* with data and every chart is settled.
Quiet == \A d \in Charts : Settled(d)

Clean(c) == ~loading[c] /\ Quiet

\* ------------------------------------------------------------- history --
\* What the user has selected: the store's filter and the charts' own
\* selection state, with the charts that had data at the time.
Selection ==
    [filters |-> filters, activeIndustries |-> activeIndustries,
     visibleExperienceLevels |-> visibleExperienceLevels,
     selectedLevels |-> selectedLevels, loading |-> loading]

NoEvent == [chart |-> "none", kind |-> "none", el |-> "none",
            value |-> "none", n |-> 0, again |-> 0, before |-> {},
            selection |-> <<>>]

\* The record kept of a user event.  A click is remembered with n (0 before
\* the first user event, 1 when this event is the first one, 2 afterwards),
\* again (2 when it repeats the click before it on the same element, else 1)
\* and before (the members its field had before the first of the two).  A
\* pointer-enter is remembered with the selection at that moment, which a
\* pointer-leave that directly follows it carries on.  A press of the Clear
\* button is remembered as such.
Event(c, k, e, v, b) ==
    LET repeats == /\ last.chart = c /\ last.el = e /\ last.value = v
                   /\ last.again = 1
        other == [chart |-> "none", kind |-> "other", el |-> "none",
                  value |-> "none", n |-> 2, again |-> 0, before |-> {},
                  selection |-> <<>>]
    IN  IF k = "click"
        THEN [chart |-> c, kind |-> k, el |-> e, value |-> v,
              n |-> IF last.n = 0 THEN 1 ELSE 2,
              again |-> IF repeats THEN 2 ELSE 1,
              before |-> IF repeats THEN last.before ELSE b,
              selection |-> <<>>]
        ELSE IF k = "enter"
        THEN [other EXCEPT !.kind = "enter", !.selection = Selection]
        ELSE IF k = "leave" /\ last.kind = "enter"
        THEN [other EXCEPT !.kind = "leave", !.selection = last.selection]
        ELSE IF k = "control" /\ v = "clear"
        THEN [other EXCEPT !.chart = c, !.kind = "control", !.value = v]
        ELSE other

\* A chart that was not rendered yet has no props; no function is under
\* evaluation.
NoProps == [isLoading |-> TRUE, data |-> "none"]
NoArg == [fn |-> "none"]

\* ---------------------------------------------------------------- Init --
InitDashboard ==
    /\ filters = EmptyFilters
    /\ activeItem = NoItem
    /\ written = EmptyFilters
    /\ loading = [c \in Charts |-> TRUE]
    /\ dirty = [c \in Charts |-> {}]
    /\ hover = NoEl
    /\ last = NoEvent
    /\ rgFilters = EmptyFilters
    /\ rowOpacity = [t \in ToSet(JobTitles) |-> -1]
    /\ activeIndustries = <<>>
    /\ bcFilters = EmptyFilters
    /\ barOpacity = [i \in ToSet(Industries) |-> -1]
    /\ viewMode = "heatmap"
    /\ variant \in {"menu", "selected"}
    /\ visibleExperienceLevels = <<>>
    /\ selectedLevels = <<>>
    /\ brushExtent = "null"
    /\ isFilterMenuOpen = FALSE
    /\ timers = <<>>
    /\ lineClass = [l \in ToSet(ExperienceLevels) |-> "none"]
    /\ pointSelected = {}
    /\ props = [c \in Charts |-> NoProps]
    /\ view = [c \in Charts |-> "none"]
    /\ evaluated = [c \in Charts |-> {}]

Init ==
    /\ InitDashboard
    /\ arg = NoArg
    /\ res = NoArg

\* The data query of chart c settles: isLoading becomes false, data defined.
Load(c) ==
    /\ loading[c]
    /\ loading' = [loading EXCEPT ![c] = FALSE]
    /\ dirty' = [dirty EXCEPT ![c] = {"props"}]
    /\ UNCHANGED <<propVars, fnVars, storeVars, hover, last, rgVars, bcVars, hpVars, tlVars>>

\* ------------------------------------------- SalaryJobTitleRidgeline --
\* Overlay rect of a job title: mouseover (box plot style: the IQR box goes
\* to opacity 1).
RGMouseOver(t) ==
    /\ Clean("RG") /\ hover = NoEl
    /\ activeItem' = setActiveItem(activeItem, Item("jobTitle", t))
    /\ dirty' = Marked("RG", {}, {"active"})
    /\ hover' = El("RG", "row", t)
    /\ last' = Event("RG", "enter", "row", t, {})
    /\ rowOpacity' = [rowOpacity EXCEPT ![t] = 10]
    /\ UNCHANGED <<propVars, fnVars, filters, written, loading, rgFilters, bcVars, hpVars, tlVars>>

\* Overlay rect of a job title: mouseout.
RGMouseOut(t) ==
    /\ Clean("RG") /\ hover = El("RG", "row", t)
    /\ activeItem' = setActiveItem(activeItem, NoItem)
    /\ dirty' = Marked("RG", {}, {"active"})
    /\ hover' = NoEl
    /\ last' = Event("RG", "leave", "row", t, {})
    /\ rowOpacity' = [rowOpacity EXCEPT ![t] = 8]
    /\ UNCHANGED <<propVars, fnVars, filters, written, loading, rgFilters, bcVars, hpVars, tlVars>>

\* Overlay rect of a job title: click.  filters is the value the draw effect
\* captured; the job title goes into the industries field.
RGClick(t) ==
    LET newFilters ==
            [rgFilters EXCEPT !.industries = ToggleIn(rgFilters.industries, t)]
    IN  /\ Clean("RG") /\ hover = El("RG", "row", t) /\ ~isFilterMenuOpen
        /\ filters' = setFilters(filters, newFilters)
        /\ written' = newFilters
        /\ activeItem' = setActiveItem(activeItem, Item("jobTitle", t))
        /\ dirty' = Marked("RG", {}, {"filters", "active"})
        /\ last' = Event("RG", "click", "row", t, ToSet(filters.industries))
        /\ rowOpacity' = [rowOpacity EXCEPT ![t] = 10]
        /\ UNCHANGED <<propVars, fnVars, loading, hover, rgFilters, bcVars, hpVars, tlVars>>

\* All / Top 5, Box Plot / Density / Bar Chart, By Median / By Range / A-Z:
\* each button increments redrawTrigger.
RGControl ==
    /\ Clean("RG") /\ hover = NoEl /\ ~isFilterMenuOpen
    /\ dirty' = Marked("RG", {"local"}, {})
    /\ last' = Event("RG", "control", "button", "redraw", {})
    /\ UNCHANGED <<propVars, fnVars, storeVars, loading, hover, rgVars, bcVars, hpVars, tlVars>>

\* One commit of the ridgeline.  The highlight effect (deps activeItem, data,
\* isLoading) runs first: every box drawn so far goes to 0.8 and the box of
\* the active job title to 1.  The draw effect (deps data, isLoading,
\* showTopTitles, redrawTrigger) then redraws every box at 0.8 and rebinds
\* the handlers.
RenderRG ==
    LET T == dirty["RG"]
        draws == T \cap {"props", "local"} # {} /\ Len(JobTitles) > 0
        highlights == T \cap {"props", "active"} # {} /\ Len(JobTitles) > 0
        highlighted ==
            [t \in ToSet(JobTitles) |->
                IF rowOpacity[t] < 0 THEN -1
                ELSE IF activeItem = Item("jobTitle", t) THEN 10 ELSE 8]
    IN  /\ ~loading["RG"] /\ T # {}
        /\ rgFilters' = IF draws THEN filters ELSE rgFilters
        /\ rowOpacity' = IF draws THEN [t \in ToSet(JobTitles) |-> 8]
                         ELSE IF highlights THEN highlighted ELSE rowOpacity
        /\ dirty' = Committed("RG", {}, {})
        /\ UNCHANGED <<propVars, fnVars, storeVars, loading, hover, last, bcVars, hpVars, tlVars>>

\* ------------------------------------ SalaryLocationIndustryBarChart --
\* data.data[location][industry]
Salary ==
    [loc \in ToSet(Locations) |->
        [ind \in ToSet(Industries) |->
            IF ind = "Technology" THEN 120 ELSE 90]]

RECURSIVE SumOver(_, _)
SumOver(f, S) ==
    IF S = {} THEN 0
    ELSE LET x == CHOOSE y \in S : TRUE IN f[x] + SumOver(f, S \ {x})

\* avgSalary of the default-selection effect: mean of the positive salaries.
AvgSalary(ind) ==
    LET locs  == {loc \in ToSet(Locations) : Salary[loc][ind] > 0}
        total == SumOver([loc \in locs |-> Salary[loc][ind]], locs)
    IN  IF Cardinality(locs) > 0 THEN total \div Cardinality(locs) ELSE 0

\* Stable sort by descending avgSalary.
RECURSIVE InsertDesc(_, _)
InsertDesc(s, x) ==
    IF s = <<>> THEN <<x>>
    ELSE IF AvgSalary(x) > AvgSalary(Head(s)) THEN <<x>> \o s
    ELSE <<Head(s)>> \o InsertDesc(Tail(s), x)

RECURSIVE SortDesc(_)
SortDesc(s) ==
    IF s = <<>> THEN <<>>
    ELSE InsertDesc(SortDesc(SubSeq(s, 1, Len(s) - 1)), s[Len(s)])

\* .sort(...).slice(0, 3).map(item => item.industry)
TopIndustries ==
    LET sorted == SortDesc(Industries)
    IN  SubSeq(sorted, 1, IF Len(sorted) < 3 THEN Len(sorted) ELSE 3)

BarsDrawn == \E i \in ToSet(Industries) : barOpacity[i] >= 0

\* Bar of an industry: mouseover (the 200 ms transition ends at 0.9).
BCMouseOver(i) ==
    /\ Clean("BC") /\ hover = NoEl /\ barOpacity[i] >= 0
    /\ barOpacity' = [barOpacity EXCEPT ![i] = 9]
    /\ activeItem' = setActiveItem(activeItem, Item("industry", i))
    /\ dirty' = Marked("BC", {}, {"active"})
    /\ hover' = El("BC", "bar", i)
    /\ last' = Event("BC", "enter", "bar", i, {})
    /\ UNCHANGED <<propVars, fnVars, filters, written, loading, rgVars, activeIndustries,
                   bcFilters, hpVars, tlVars>>

\* Bar of an industry: mouseout (the 200 ms transition ends at 1).
BCMouseOut(i) ==
    /\ Clean("BC") /\ hover = El("BC", "bar", i)
    /\ barOpacity' = [barOpacity EXCEPT ![i] = 10]
    /\ activeItem' = setActiveItem(activeItem, NoItem)
    /\ dirty' = Marked("BC", {}, {"active"})
    /\ hover' = NoEl
    /\ last' = Event("BC", "leave", "bar", i, {})
    /\ UNCHANGED <<propVars, fnVars, filters, written, loading, rgVars, activeIndustries,
                   bcFilters, hpVars, tlVars>>

\* Legend entry of an industry: click.  filters is the value the draw effect
\* captured (deps data, isLoading, activeIndustries).
BCLegendClick(i) ==
    LET newFilters ==
            [bcFilters EXCEPT !.industries = ToggleIn(bcFilters.industries, i)]
    IN  /\ Clean("BC") /\ hover = NoEl /\ BarsDrawn /\ ~isFilterMenuOpen
        /\ activeIndustries' = ToggleIn(activeIndustries, i)
        /\ filters' = setFilters(filters, newFilters)
        /\ written' = newFilters
        /\ dirty' = Marked("BC", {"local"}, {"filters"})
        /\ last' = Event("BC", "click", "legend", i, ToSet(filters.industries))
        /\ UNCHANGED <<propVars, fnVars, activeItem, loading, hover, rgVars, bcFilters,
                       barOpacity, hpVars, tlVars>>

\* toggleIndustry, which the onClick of each industry Badge repeats inline.
toggleIndustry(industry) ==
    LET newActiveIndustries == ToggleIn(activeIndustries, industry)
        newFilters ==
            [filters EXCEPT !.industries = ToggleIn(filters.industries, industry)]
        added == Includes(newActiveIndustries, industry)
                    /\ ~Includes(activeIndustries, industry)
        removedActive == ~added /\ activeItem = Item("industry", industry)
    IN  /\ activeIndustries' = newActiveIndustries
        /\ filters' = setFilters(filters, newFilters)
        /\ written' = newFilters
        /\ activeItem' =
              IF added THEN setActiveItem(activeItem, Item("industry", industry))
              ELSE IF removedActive THEN setActiveItem(activeItem, NoItem)
              ELSE activeItem
        /\ dirty' = Marked("BC", {"local"},
                           IF added \/ removedActive
                           THEN {"filters", "active"} ELSE {"filters"})

BCBadgeClick(i) ==
    /\ Clean("BC") /\ hover = NoEl /\ ~isFilterMenuOpen
    /\ toggleIndustry(i)
    /\ last' = Event("BC", "click", "badge", i, ToSet(filters.industries))
    /\ UNCHANGED <<propVars, fnVars, loading, hover, rgVars, bcFilters, barOpacity, hpVars, tlVars>>

\* Select All button.
BCSelectAll ==
    LET newFilters == [filters EXCEPT !.industries = Industries]
    IN  /\ Clean("BC") /\ hover = NoEl /\ ~isFilterMenuOpen
        /\ activeIndustries' = Industries
        /\ filters' = setFilters(filters, newFilters)
        /\ written' = newFilters
        /\ dirty' = Marked("BC", {"local"}, {"filters"})
        /\ last' = Event("BC", "control", "button", "selectAll", {})
        /\ UNCHANGED <<propVars, fnVars, activeItem, loading, hover, rgVars, bcFilters,
                       barOpacity, hpVars, tlVars>>

\* Clear button.
BCClear ==
    LET newFilters == [filters EXCEPT !.industries = <<>>]
    IN  /\ Clean("BC") /\ hover = NoEl /\ ~isFilterMenuOpen
        /\ activeIndustries' = <<>>
        /\ filters' = setFilters(filters, newFilters)
        /\ written' = newFilters
        /\ activeItem' = setActiveItem(activeItem, NoItem)
        /\ dirty' = Marked("BC", {"local"}, {"filters", "active"})
        /\ last' = Event("BC", "control", "button", "clear", {})
        /\ UNCHANGED <<propVars, fnVars, loading, hover, rgVars, bcFilters, barOpacity,
                       hpVars, tlVars>>

\* One commit of the bar chart: default-selection effect, active-item
\* effect, draw effect, all reading the values of this render.
RenderBC ==
    LET T == dirty["BC"]
        a == activeIndustries
        setsDefault ==
            /\ T \cap {"props", "local", "filters"} # {}
            /\ Len(Industries) > 0
            /\ a = <<>>
        afterDefault ==
            IF ~setsDefault THEN a
            ELSE IF Len(filters.industries) > 0
                 THEN Within(filters.industries, Industries)
                 ELSE TopIndustries
        addsActive ==
            /\ T \cap {"props", "local", "active"} # {}
            /\ activeItem.type = "industry"
            /\ Includes(Industries, activeItem.value)
            /\ ~Includes(a, activeItem.value)
        afterActive ==
            IF addsActive THEN Append(afterDefault, activeItem.value)
            ELSE afterDefault
        draws ==
            /\ T \cap {"props", "local"} # {}
            /\ Len(Locations) > 0
            /\ Len(a) > 0
    IN  /\ ~loading["BC"] /\ T # {}
        /\ activeIndustries' = afterActive
        /\ barOpacity' =
              IF draws
              THEN [i \in ToSet(Industries) |-> IF Includes(a, i) THEN 10 ELSE 3]
              ELSE barOpacity
        /\ bcFilters' = IF draws THEN filters ELSE bcFilters
        /\ dirty' = Committed("BC",
                              IF setsDefault \/ addsActive THEN {"local"} ELSE {},
                              {})
        /\ UNCHANGED <<propVars, fnVars, storeVars, loading, hover, last, rgVars, hpVars, tlVars>>

\* ---------------------------------------------------- HiringPulseChart --
ViewModes == {"heatmap", "bubble", "trend"}

\* The clickable element of each view: heatmap cell, bubble, trend point.
HPElement ==
    IF viewMode = "heatmap" THEN "cell"
    ELSE IF viewMode = "bubble" THEN "bubble" ELSE "point"

\* mouseover of a cell / bubble / trend point: stroke and tooltip only.
HPMouseOver(l) ==
    /\ Clean("HP") /\ hover = NoEl
    /\ hover' = El("HP", HPElement, l)
    /\ last' = Event("HP", "enter", HPElement, l, {})
    /\ UNCHANGED <<propVars, fnVars, storeVars, loading, dirty, rgVars, bcVars, hpVars, tlVars>>

\* mouseout of a cell / bubble / trend point: stroke and tooltip only.
HPMouseOut(l) ==
    /\ Clean("HP") /\ hover = El("HP", HPElement, l)
    /\ hover' = NoEl
    /\ last' = Event("HP", "leave", HPElement, l, {})
    /\ UNCHANGED <<propVars, fnVars, storeVars, loading, dirty, rgVars, bcVars, hpVars, tlVars>>

\* click of a cell / bubble / trend point (the three handlers are the same).
HPClick(l) ==
    LET newFilters ==
            [filters EXCEPT
                !.experienceLevels =
                    IF ~Includes(filters.experienceLevels, l)
                    THEN <<l>> ELSE <<>>]
    IN  /\ Clean("HP") /\ hover = El("HP", HPElement, l) /\ ~isFilterMenuOpen
        /\ filters' = setFilters(filters, newFilters)
        /\ written' = newFilters
        /\ dirty' = Marked("HP", {"local"}, {"filters"})
        /\ last' = Event("HP", "click", HPElement, l,
                         ToSet(filters.experienceLevels))
        /\ UNCHANGED <<propVars, fnVars, activeItem, loading, hover, rgVars, bcVars, hpVars, tlVars>>

\* Heat / Bubble / Trend buttons.
HPSetViewMode(m) ==
    /\ Clean("HP") /\ hover = NoEl /\ ~isFilterMenuOpen /\ m # viewMode
    /\ viewMode' = m
    /\ dirty' = Marked("HP", {"local"}, {})
    /\ last' = Event("HP", "control", "button", m, {})
    /\ UNCHANGED <<propVars, fnVars, storeVars, loading, hover, rgVars, bcVars, tlVars>>

\* One commit of the hiring pulse chart: aggregatedData is a new object on
\* every render, so the draw effect runs and rebinds the handlers each time.
RenderHP ==
    /\ ~loading["HP"] /\ dirty["HP"] # {}
    /\ dirty' = Committed("HP", {}, {})
    /\ UNCHANGED <<propVars, fnVars, storeVars, loading, hover, last, rgVars, bcVars, hpVars, tlVars>>


\* -------------------------------------------------- JobPostingsTimeLine --
\* Class the draw effect and the styling effect give a line, from the list
\* of selected levels: "selected", "faded", or no extra class.
LineClassFor(l, sel) ==
    IF Includes(sel, l) THEN "selected"
    ELSE IF Len(sel) > 0 THEN "faded" ELSE "plain"

\* A visibility update that hides the level even when it is the last one.
ToggleVisibleUnguarded(vis, l) ==
    IF Includes(vis, l) THEN Without(vis, l) ELSE Append(vis, l)

\* Visibility update shared by the line, data-point and legend handlers.
ToggleVisible(vis, l) ==
    IF Includes(vis, l) /\ Len(vis) > 1 THEN Without(vis, l)
    ELSE IF ~Includes(vis, l) THEN Append(vis, l)
    ELSE vis

VisibleSet(vis, l) == (Includes(vis, l) /\ Len(vis) > 1) \/ ~Includes(vis, l)

\* .timeline-line of a level: mouseover.
TLLineOver(l) ==
    /\ Clean("TL") /\ hover = NoEl /\ lineClass[l] # "none"
    /\ activeItem' = setActiveItem(activeItem, Item("experienceLevel", l))
    /\ dirty' = Marked("TL", {}, {"active"})
    /\ hover' = El("TL", "line", l)
    /\ last' = Event("TL", "enter", "line", l, {})
    /\ UNCHANGED <<propVars, fnVars, filters, written, loading, rgVars, bcVars, hpVars, tlVars>>

\* .timeline-line of a level: mouseout.
TLLineOut(l) ==
    /\ Clean("TL") /\ hover = El("TL", "line", l)
    /\ activeItem' = setActiveItem(activeItem, NoItem)
    /\ dirty' = Marked("TL", {}, {"active"})
    /\ hover' = NoEl
    /\ last' = Event("TL", "leave", "line", l, {})
    /\ UNCHANGED <<propVars, fnVars, filters, written, loading, rgVars, bcVars, hpVars, tlVars>>

\* .timeline-line of a level: click.
TLLineClick(l) ==
    LET newFilters ==
            [filters EXCEPT
                !.experienceLevels = ToggleIn(filters.experienceLevels, l)]
        vis == visibleExperienceLevels
    IN  /\ Clean("TL") /\ hover = El("TL", "line", l) /\ ~isFilterMenuOpen
        /\ filters' = setFilters(filters, newFilters)
        /\ written' = newFilters
        /\ visibleExperienceLevels' = ToggleVisible(vis, l)
        /\ dirty' = Marked("TL", IF VisibleSet(vis, l) THEN {"local"} ELSE {},
                           {"filters"})
        /\ last' = Event("TL", "click", "line", l,
                         ToSet(filters.experienceLevels))
        /\ UNCHANGED <<propVars, fnVars, activeItem, loading, hover, rgVars, bcVars, hpVars,
                       variant, selectedLevels, brushExtent, isFilterMenuOpen,
                       timers, lineClass, pointSelected>>

\* .data-point of a level and time point: mouseover.
TLPointOver(l, t) ==
    /\ Clean("TL") /\ hover = NoEl /\ lineClass[l] # "none"
    /\ activeItem' = setActiveItem(activeItem, Item("experienceLevel", l))
    /\ dirty' = Marked("TL", {}, {"active"})
    /\ hover' = PointEl(l, t)
    /\ last' = Event("TL", "enter", "point", l, {})
    /\ UNCHANGED <<propVars, fnVars, filters, written, loading, rgVars, bcVars, hpVars, tlVars>>

\* .data-point: mouseout; the active item is kept when the element carries
\* the class "selected".
TLPointOut(l, t) ==
    LET isSelected == PointEl(l, t) \in pointSelected
    IN  /\ Clean("TL") /\ hover = PointEl(l, t)
        /\ activeItem' = IF isSelected THEN activeItem
                         ELSE setActiveItem(activeItem, NoItem)
        /\ dirty' = Marked("TL", {}, IF isSelected THEN {} ELSE {"active"})
        /\ hover' = NoEl
        /\ last' = Event("TL", "leave", "point", l,
                         IF isSelected THEN {"selected"} ELSE {})
        /\ UNCHANGED <<propVars, fnVars, filters, written, loading, rgVars, bcVars, hpVars, tlVars>>

\* .data-point: click, filter-menu variant.
TLPointClickMenu(l, t) ==
    LET p == PointEl(l, t)
        newFilters ==
            [filters EXCEPT
                !.experienceLevels = ToggleIn(filters.experienceLevels, l)]
        vis == visibleExperienceLevels
    IN  /\ variant = "menu"
        /\ Clean("TL") /\ hover = p /\ ~isFilterMenuOpen
        /\ pointSelected' = IF p \in pointSelected
                            THEN pointSelected \ {p} ELSE pointSelected \cup {p}
        /\ filters' = setFilters(filters, newFilters)
        /\ written' = newFilters
        /\ visibleExperienceLevels' = ToggleVisible(vis, l)
        /\ dirty' = Marked("TL", IF VisibleSet(vis, l) THEN {"local"} ELSE {},
                           {"filters"})
        /\ last' = Event("TL", "click", "point", l,
                         ToSet(filters.experienceLevels))
        /\ UNCHANGED <<propVars, fnVars, activeItem, loading, hover, rgVars, bcVars, hpVars,
                       variant, selectedLevels, brushExtent, isFilterMenuOpen,
                       timers, lineClass>>

\* .data-point: click, selectedLevels variant (the store is written later,
\* by the sync effect).
TLPointClickSelected(l, t) ==
    LET p == PointEl(l, t)
        isAlreadySelected == Includes(selectedLevels, l)
    IN  /\ variant = "selected"
        /\ Clean("TL") /\ hover = p /\ ~isFilterMenuOpen
        /\ selectedLevels' =
              IF isAlreadySelected
              THEN IF Len(selectedLevels) = 1 THEN <<>>
                   ELSE Without(selectedLevels, l)
              ELSE Append(selectedLevels, l)
        /\ activeItem' = setActiveItem(activeItem, Item("experienceLevel", l))
        /\ pointSelected' = IF isAlreadySelected
                            THEN pointSelected \ {p} ELSE pointSelected \cup {p}
        /\ dirty' = Marked("TL", {"sel"}, {"active"})
        /\ last' = Event("TL", "click", "pointSel", l,
                         ToSet(filters.experienceLevels))
        /\ UNCHANGED <<propVars, fnVars, filters, written, loading, hover, rgVars, bcVars, hpVars,
                       variant, visibleExperienceLevels, brushExtent,
                       isFilterMenuOpen, timers, lineClass>>

\* Legend entry of a level: click (both variants do the same three updates).
TLLegendClick(l) ==
    LET newFilters ==
            [filters EXCEPT
                !.experienceLevels = ToggleIn(filters.experienceLevels, l)]
        vis == visibleExperienceLevels
    IN  /\ Clean("TL") /\ hover = NoEl /\ ~isFilterMenuOpen
        /\ visibleExperienceLevels' = ToggleVisible(vis, l)
        /\ filters' = setFilters(filters, newFilters)
        /\ written' = newFilters
        /\ activeItem' = setActiveItem(activeItem, Item("experienceLevel", l))
        /\ dirty' = Marked("TL", IF VisibleSet(vis, l) THEN {"local"} ELSE {},
                           {"filters", "active"})
        /\ last' = Event("TL", "click", "legend", l,
                         ToSet(filters.experienceLevels))
        /\ UNCHANGED <<propVars, fnVars, loading, hover, rgVars, bcVars, hpVars, variant,
                       selectedLevels, brushExtent, isFilterMenuOpen, timers,
                       lineClass, pointSelected>>

\* Body of the brush "end" listener for a non-empty selection: the new
\* extent is stored and, if an experience level is active, its restore is
\* scheduled 100 ms later.
BrushEndSchedules(item) == item.type = "experienceLevel"

\* The user finishes a brush gesture with a selection.
TLBrushEnd ==
    /\ Clean("TL") /\ hover = NoEl /\ ~isFilterMenuOpen
    /\ BrushEndSchedules(activeItem) => Len(timers) < MaxTimers
    /\ brushExtent' = "set"
    /\ timers' = IF BrushEndSchedules(activeItem)
                 THEN Append(timers, activeItem.value) ELSE timers
    /\ dirty' = Marked("TL", {"brush"}, {})
    /\ last' = Event("TL", "control", "brush", "set", {})
    /\ UNCHANGED <<propVars, fnVars, storeVars, loading, hover, rgVars, bcVars, hpVars, variant,
                   visibleExperienceLevels, selectedLevels, isFilterMenuOpen,
                   lineClass, pointSelected>>

\* The user clears the brush (end event without selection).
TLBrushClear ==
    /\ Clean("TL") /\ hover = NoEl /\ ~isFilterMenuOpen
    /\ brushExtent = "set"
    /\ brushExtent' = "null"
    /\ dirty' = Marked("TL", {"local"}, {})
    /\ last' = Event("TL", "control", "brush", "null", {})
    /\ UNCHANGED <<propVars, fnVars, storeVars, loading, hover, rgVars, bcVars, hpVars, variant,
                   visibleExperienceLevels, selectedLevels, isFilterMenuOpen,
                   timers, lineClass, pointSelected>>

\* The setTimeout callback of the brush "end" listener.
TLTimerFire ==
    /\ timers # <<>>
    /\ activeItem' =
          setActiveItem(activeItem, Item("experienceLevel", Head(timers)))
    /\ timers' = Tail(timers)
    /\ dirty' = Marked("TL", {}, {"active"})
    /\ UNCHANGED <<propVars, fnVars, filters, written, loading, hover, last, rgVars, bcVars,
                   hpVars, variant, visibleExperienceLevels, selectedLevels,
                   brushExtent, isFilterMenuOpen, lineClass, pointSelected>>

\* W / M / Q buttons: setTimeInterval, setBrushExtent(null), redrawTrigger+1.
TLInterval ==
    /\ Clean("TL") /\ hover = NoEl /\ ~isFilterMenuOpen
    /\ brushExtent' = "null"
    /\ dirty' = Marked("TL", {"local"}, {})
    /\ last' = Event("TL", "control", "button", "interval", {})
    /\ UNCHANGED <<propVars, fnVars, storeVars, loading, hover, rgVars, bcVars, hpVars, variant,
                   visibleExperienceLevels, selectedLevels, isFilterMenuOpen,
                   timers, lineClass, pointSelected>>

\* Filters button of the filter-menu variant, menu closed.
TLMenuOpen ==
    /\ variant = "menu"
    /\ Clean("TL") /\ hover = NoEl /\ ~isFilterMenuOpen
    /\ isFilterMenuOpen' = TRUE
    /\ dirty' = Marked("TL", {"local"}, {})
    /\ last' = Event("TL", "control", "button", "menu", {})
    /\ UNCHANGED <<propVars, fnVars, storeVars, loading, hover, rgVars, bcVars, hpVars, variant,
                   visibleExperienceLevels, selectedLevels, brushExtent,
                   timers, lineClass, pointSelected>>

\* handleClickOutside: a mousedown outside the open menu closes it.
TLMenuClickOutside ==
    /\ Clean("TL") /\ isFilterMenuOpen
    /\ isFilterMenuOpen' = FALSE
    /\ dirty' = Marked("TL", {"local"}, {})
    /\ last' = Event("TL", "control", "button", "outside", {})
    /\ UNCHANGED <<propVars, fnVars, storeVars, loading, hover, rgVars, bcVars, hpVars, variant,
                   visibleExperienceLevels, selectedLevels, brushExtent,
                   timers, lineClass, pointSelected>>

\* Write shared by the three filter-menu handlers below.
TLMenuWrite(levels, what) ==
    LET newFilters == [filters EXCEPT !.experienceLevels = levels]
    IN  /\ Clean("TL") /\ hover = NoEl /\ isFilterMenuOpen
        /\ filters' = setFilters(filters, newFilters)
        /\ written' = newFilters
        /\ dirty' = Marked("TL", {}, {"filters"})
        /\ last' = Event("TL", "control", "menu", what, {})
        /\ UNCHANGED <<propVars, fnVars, activeItem, loading, hover, rgVars, bcVars, hpVars,
                       tlVars>>

\* Select All of the filter menu.
TLMenuSelectAll == TLMenuWrite(ExperienceLevels, "selectAll")

\* Clear of the filter menu.
TLMenuClear == TLMenuWrite(<<>>, "clear")

\* A level row of the filter menu.
TLMenuItem(l) == TLMenuWrite(ToggleIn(filters.experienceLevels, l), l)

\* One commit of the timeline.  aggregatedData is a new object on every
\* render, so the draw effect always runs: it removes every element, draws
\* the visible lines with the class derived from filters, and moves the
\* brush to the stored extent, which makes d3 emit "end" again.
RenderTL ==
    LET T == dirty["TL"]
        vis == visibleExperienceLevels
        sel == selectedLevels
        hasLevels == Len(ExperienceLevels) > 0
        initVisible == "props" \in T /\ hasLevels
        initSelected == variant = "selected" /\ "props" \in T /\ hasLevels
        reEmits == brushExtent # "null"
        schedules == reEmits /\ BrushEndSchedules(activeItem)
        drawn == [l \in ToSet(ExperienceLevels) |->
                    IF Includes(vis, l)
                    THEN LineClassFor(l, filters.experienceLevels)
                    ELSE "none"]
        restyles == variant = "selected" /\ T \cap {"sel", "props"} # {}
        styled == [l \in ToSet(ExperienceLevels) |->
                    IF drawn[l] = "none" THEN "none"
                    ELSE IF restyles THEN LineClassFor(l, sel)
                    ELSE drawn[l]]
        needsUpdate ==
            \/ Len(sel) # Len(filters.experienceLevels)
            \/ \E i \in 1..Len(sel) : ~Includes(filters.experienceLevels, sel[i])
        syncs == variant = "selected" /\ T \cap {"sel", "props"} # {}
                    /\ needsUpdate
        newFilters == [filters EXCEPT !.experienceLevels = sel]
        own == (IF initVisible THEN {"local"} ELSE {})
                 \cup (IF initSelected THEN {"sel"} ELSE {})
                 \cup (IF reEmits THEN {"brush"} ELSE {})
    IN  /\ ~loading["TL"] /\ T # {}
        /\ schedules => Len(timers) < MaxTimers
        /\ visibleExperienceLevels' = IF initVisible THEN ExperienceLevels ELSE vis
        /\ selectedLevels' = IF initSelected THEN ExperienceLevels ELSE sel
        /\ lineClass' = styled
        /\ pointSelected' = {}
        /\ timers' = IF schedules THEN Append(timers, activeItem.value) ELSE timers
        /\ filters' = IF syncs THEN setFilters(filters, newFilters) ELSE filters
        /\ written' = IF syncs THEN newFilters ELSE written
        /\ hover' = IF hover.chart = "TL" /\ hover.el \in {"line", "point"}
                        /\ ~Includes(vis, hover.value)
                    THEN NoEl ELSE hover
        /\ dirty' = Committed("TL", own, IF syncs THEN {"filters"} ELSE {})
        /\ UNCHANGED <<propVars, fnVars, activeItem, loading, last, rgVars, bcVars, hpVars,
                       variant, brushExtent, isFilterMenuOpen>>

\* ---------------------------------------------------------------- Next --
JobTitleSet == ToSet(JobTitles)
IndustrySet == ToSet(Industries)
LevelSet    == ToSet(ExperienceLevels)
TimeSet     == ToSet(TimePoints)

\* Each chart is its own component: the steps of one chart are its data
\* load, its handlers and its commits.
RGNext ==
    \/ Load("RG")
    \/ \E t \in JobTitleSet : RGMouseOver(t)
    \/ \E t \in JobTitleSet : RGMouseOut(t)
    \/ \E t \in JobTitleSet : RGClick(t)
    \/ RGControl
    \/ RenderRG

BCNext ==
    \/ Load("BC")
    \/ \E i \in IndustrySet : BCMouseOver(i)
    \/ \E i \in IndustrySet : BCMouseOut(i)
    \/ \E i \in IndustrySet : BCLegendClick(i)
    \/ \E i \in IndustrySet : BCBadgeClick(i)
    \/ BCSelectAll
    \/ BCClear
    \/ RenderBC

HPNext ==
    \/ Load("HP")
    \/ \E l \in LevelSet : HPMouseOver(l)
    \/ \E l \in LevelSet : HPMouseOut(l)
    \/ \E l \in LevelSet : HPClick(l)
    \/ \E m \in ViewModes : HPSetViewMode(m)
    \/ RenderHP

TLNext ==
    \/ Load("TL")
    \/ \E l \in LevelSet : TLLineOver(l)
    \/ \E l \in LevelSet : TLLineOut(l)
    \/ \E l \in LevelSet : TLLineClick(l)
    \/ \E l \in LevelSet, t \in TimeSet : TLPointOver(l, t)
    \/ \E l \in LevelSet, t \in TimeSet : TLPointOut(l, t)
    \/ \E l \in LevelSet, t \in TimeSet : TLPointClickMenu(l, t)
    \/ \E l \in LevelSet, t \in TimeSet : TLPointClickSelected(l, t)
    \/ \E l \in LevelSet : TLLegendClick(l)
    \/ TLBrushEnd
    \/ TLBrushClear
    \/ TLTimerFire
    \/ TLInterval
    \/ TLMenuOpen
    \/ TLMenuClickOutside
    \/ TLMenuSelectAll
    \/ TLMenuClear
    \/ \E l \in LevelSet : TLMenuItem(l)
    \/ RenderTL

\* The dashboard with all four charts mounted.
Next == RGNext \/ BCNext \/ HPNext \/ TLNext

Spec == Init /\ [][Next]_vars

\* Pages that mount some of the charts (a chart that is not mounted is a
\* chart of Spec whose data never arrives): every behaviour of these is a
\* behaviour of Spec.
SpecRidgelinePulse == Init /\ [][RGNext \/ HPNext]_vars

SpecBarChart == Init /\ [][BCNext]_vars

SpecTimeline == Init /\ [][TLNext]_vars

SpecBarRidgeline == Init /\ [][BCNext \/ RGNext]_vars

SpecTimelinePulse == Init /\ [][TLNext \/ HPNext]_vars

\* -------------------------------------------------------------- claims --
\* C1: the store holds the argument of the most recent setFilters call, in
\* all four fields; nothing of an earlier snapshot comes back.
C1_LastWriteWins == filters = written

\* C1 witness: a click has written a snapshot whose experienceLevels is
\* empty after an earlier snapshot had it filled.
C1_Witness ==
    /\ last.kind = "click" /\ last.before # {}
    /\ written.experienceLevels = <<>>
    /\ filters = written

\* The fields of the store other than f keep their values in this step.
OtherFieldsKept(f) ==
    \A g \in DOMAIN filters \ {f} : filters'[g] = filters[g]

\* The click handlers that write the industries field.
IndustriesClick ==
    \/ \E t \in JobTitleSet : RGClick(t)
    \/ \E i \in IndustrySet : BCLegendClick(i) \/ BCBadgeClick(i)

\* The click handlers that write the experienceLevels field.
ExperienceLevelsClick ==
    \/ \E l \in LevelSet : HPClick(l) \/ TLLineClick(l) \/ TLLegendClick(l)
    \/ \E l \in LevelSet, t \in TimeSet : TLPointClickMenu(l, t)

\* C2: a click changes only the field its chart toggles; the other three
\* fields keep the values the store had immediately before the click.
C2_ClickKeepsOtherFields ==
    [][ /\ IndustriesClick => OtherFieldsKept("industries")
        /\ ExperienceLevelsClick => OtherFieldsKept("experienceLevels") ]_vars

\* The store field a chart's clicks toggle.
FieldOf(c) == IF c \in {"RG", "BC"} THEN "industries" ELSE "experienceLevels"

\* C3: once the same data element has been clicked twice in a row and the
\* charts have settled, the toggled field has the members it had before the
\* first of the two clicks.
C3_ToggleTwiceRestores ==
    (last.again = 2 /\ Quiet) => ToSet(filters[FieldOf(last.chart)]) = last.before

\* Membership after toggling v alone.
Toggled(S, v) == IF v \in S THEN S \ {v} ELSE S \cup {v}

\* C4: a click on a data element of the hiring pulse chart or of the
\* timeline adds the clicked level if absent, removes it if present, and
\* leaves the membership of every other level as it was.
C4_ClickTogglesOnlyClicked ==
    [][ \A l \in LevelSet :
          ( \/ HPClick(l) \/ TLLineClick(l) \/ TLLegendClick(l)
            \/ \E t \in TimeSet : TLPointClickMenu(l, t) )
          => ToSet(filters'.experienceLevels)
                = Toggled(ToSet(filters.experienceLevels), l) ]_vars

\* C5: every member of a field is a label of that field's dimension.
C5_FieldsHoldOwnDimension ==
    /\ ToSet(filters.industries) \subseteq IndustrySet
    /\ ToSet(filters.experienceLevels) \subseteq LevelSet
    /\ ToSet(filters.locations) \subseteq ToSet(Locations)
    /\ filters.employmentTypes = <<>>

\* C6: in every chart a pointer-enter on a data element sets activeItem to
\* the kind and value of that element's category.
C6_EnterSetsActiveItem ==
    [][ /\ \A t \in JobTitleSet :
              RGMouseOver(t) => activeItem' = Item("jobTitle", t)
        /\ \A i \in IndustrySet :
              BCMouseOver(i) => activeItem' = Item("industry", i)
        /\ \A l \in LevelSet :
              ( \/ HPMouseOver(l) \/ TLLineOver(l)
                \/ \E t \in TimeSet : TLPointOver(l, t) )
              => activeItem' = Item("experienceLevel", l) ]_vars

\* What a pointer-leave has to do to activeItem, given whether the element
\* left is in the selected state.
LeaveContract(isSelected) ==
    IF isSelected THEN activeItem' = activeItem ELSE activeItem' = NoItem

\* C7: a pointer-leave from an element that is not selected sets activeItem
\* to none, and from a selected element leaves activeItem unchanged; for
\* timeline lines and data points (class "selected"), ridgeline rows and
\* bars (category in the filter).
C7_LeaveContract ==
    [][ /\ \A l \in LevelSet :
              TLLineOut(l) => LeaveContract(lineClass[l] = "selected")
        /\ \A l \in LevelSet, t \in TimeSet :
              TLPointOut(l, t) => LeaveContract(PointEl(l, t) \in pointSelected)
        /\ \A t \in JobTitleSet :
              RGMouseOut(t) => LeaveContract(Includes(filters.industries, t))
        /\ \A i \in IndustrySet :
              BCMouseOut(i) => LeaveContract(Includes(filters.industries, i))
      ]_vars

\* The pointer-enter and click handlers of chart elements.
EnterOrClick ==
    \/ \E t \in JobTitleSet : RGMouseOver(t) \/ RGClick(t)
    \/ \E i \in IndustrySet :
          BCMouseOver(i) \/ BCLegendClick(i) \/ BCBadgeClick(i)
    \/ \E l \in LevelSet :
          \/ HPMouseOver(l) \/ HPClick(l)
          \/ TLLineOver(l) \/ TLLineClick(l) \/ TLLegendClick(l)
          \/ \E t \in TimeSet :
                \/ TLPointOver(l, t) \/ TLPointClickMenu(l, t)
                \/ TLPointClickSelected(l, t)

\* C8: activeItem takes a new value other than none only in a pointer-enter
\* or click handler; in particular the delayed restore of the brush never
\* replaces a value written after the brush ended.
C8_ActiveItemOnlyByPointer ==
    [][ (activeItem' # activeItem /\ activeItem'.type # "null")
          => EnterOrClick ]_vars

\* Opacity (x10) the stylesheet gives a line that is not hovered.
LineOpacity(class) == IF class = "faded" THEN 3 ELSE 10

\* C9: at rest (charts settled, pointer on no element), whenever a field is
\* not empty no member's element is more transparent than a non-member's:
\* for the bars and for the timeline's lines.
C9_MembersNotFainter ==
    (Quiet /\ hover = NoEl) =>
        /\ Len(filters.industries) > 0 =>
              \A i, j \in IndustrySet :
                  ( /\ barOpacity[i] >= 0 /\ barOpacity[j] >= 0
                    /\ Includes(filters.industries, i)
                    /\ ~Includes(filters.industries, j) )
                  => barOpacity[i] >= barOpacity[j]
        /\ Len(filters.experienceLevels) > 0 =>
              \A l, m \in LevelSet :
                  ( /\ lineClass[l] # "none" /\ lineClass[m] # "none"
                    /\ Includes(filters.experienceLevels, l)
                    /\ ~Includes(filters.experienceLevels, m) )
                  => LineOpacity(lineClass[l]) >= LineOpacity(lineClass[m])

\* C10: when the first thing the user does after the timeline has loaded is
\* to click the Senior-level legend entry, then once the chart has settled
\* Senior-level is in filters.experienceLevels, activeItem is
\* {experienceLevel, Senior-level} and the Entry-level line is faded.
C10_LegendScenario ==
    ( /\ last.n = 1 /\ last.chart = "TL" /\ last.el = "legend"
      /\ last.value = "Senior-level" /\ Quiet )
    => /\ Includes(filters.experienceLevels, "Senior-level")
       /\ activeItem = Item("experienceLevel", "Senior-level")
       /\ lineClass["Entry-level"] = "faded"

\* The timeline click handlers that toggle a level in the filter.
TLFilterClick ==
    \E l \in LevelSet :
        \/ TLLineClick(l) \/ TLLegendClick(l)
        \/ \E t \in TimeSet : TLPointClickMenu(l, t)

\* C11: a line, data-point or legend click of the timeline removes no level
\* from visibleExperienceLevels, and after it every level in
\* filters.experienceLevels is in visibleExperienceLevels.
C11_FilterNeverHides ==
    [][ TLFilterClick =>
          /\ ToSet(visibleExperienceLevels)
                \subseteq ToSet(visibleExperienceLevels')
          /\ ToSet(filters'.experienceLevels)
                \subseteq ToSet(visibleExperienceLevels') ]_vars

\* C12: once the pointer has entered an element and left it again with no
\* click in between, and the charts have settled, the filter, the bar
\* chart's activeIndustries and the timeline's visibleExperienceLevels and
\* selectedLevels are what they were when the pointer entered.
C12_HoverKeepsSelection ==
    (last.kind = "leave" /\ Quiet /\ last.selection.loading = loading)
        => Selection = last.selection

\* Opacity (x10) the stylesheet gives a line under the pointer.
HoverLineOpacity == 10

\* C13: a pointer-enter on a selected element does not lower its emphasis:
\* an active bar is not more transparent while hovered than before, and a
\* selected timeline line keeps at least its opacity.
C13_HoverKeepsEmphasis ==
    [][ /\ \A i \in IndustrySet :
              (BCMouseOver(i) /\ Includes(activeIndustries, i))
              => barOpacity'[i] >= barOpacity[i]
        /\ \A l \in LevelSet :
              (TLLineOver(l) /\ lineClass[l] = "selected")
              => HoverLineOpacity >= LineOpacity(lineClass[l]) ]_vars

\* C14: the selected marking a click applied stays through the pointer
\* leaving and through the re-render that follows an ActiveItem change: a
\* ridgeline row whose job title is in the filter keeps its highlight, and
\* a timeline data point keeps its "selected" class.
C14_SelectedPersists ==
    [][ /\ \A t \in JobTitleSet :
              ( /\ RGMouseOut(t) \/ RenderRG
                /\ Includes(filters.industries, t)
                /\ rowOpacity[t] = 10 )
              => rowOpacity'[t] = 10
        /\ (RenderTL \/ \E l \in LevelSet, t \in TimeSet : TLPointOut(l, t))
              => pointSelected \subseteq pointSelected' ]_vars

\* ------------------------------------------------- charts as components --
\* Each chart is a function of its two props.  data is undefined, or an
\* object whose lists are all of length 0, or the data of this model.
DataKinds == {"undefined", "empty", "full"}
PropsSet == [isLoading : BOOLEAN, data : DataKinds]

\* The branch the component returns: the skeleton, the "No Data Available"
\* card, or the chart card.  Only the ridgeline tests the length of its list.
Returned(c, p) ==
    IF p.isLoading THEN "skeleton"
    ELSE IF p.data = "undefined" THEN "nodata"
    ELSE IF c = "RG" /\ p.data = "empty" THEN "nodata"
    ELSE "chart"

\* The derivations one render and the effects of its commit evaluate.
\* HiringPulseChart and JobPostingsTimeLine call getAggregatedData() in the
\* render body, above the isLoading branch; it returns early only without
\* data.  The effects test isLoading, except the one that initialises
\* selectedLevels.
Evaluations(c, p) ==
    LET ready == ~p.isLoading /\ p.data = "full"
    IN  CASE c = "RG" -> IF ready THEN {"jobTitlesByMedian"} ELSE {}
          [] c = "BC" -> IF ready /\ activeIndustries = <<>>
                                  /\ filters.industries = <<>>
                         THEN {"topIndustries"} ELSE {}
          [] c = "HP" -> IF p.data # "undefined"
                         THEN {"getAggregatedData"} ELSE {}
          [] c = "TL" ->
                (IF p.data # "undefined" THEN {"getAggregatedData"} ELSE {})
                \cup (IF variant = "menu" /\ ready
                      THEN {"setVisibleExperienceLevels"} ELSE {})
                \cup (IF variant = "selected" /\ p.data = "full"
                      THEN {"setSelectedLevels"} ELSE {})

\* The parent renders chart c with props p.
RenderWith(c, p) ==
    /\ props' = [props EXCEPT ![c] = p]
    /\ view' = [view EXCEPT ![c] = Returned(c, p)]
    /\ evaluated' = [evaluated EXCEPT ![c] = Evaluations(c, p)]
    /\ UNCHANGED <<storeVars, loading, dirty, hover, last, rgVars, bcVars,
                   hpVars, tlVars, fnVars>>

SpecProps == Init /\ [][\E c \in Charts, p \in PropsSet : RenderWith(c, p)]_vars

\* C15: a chart rendered with isLoading false and with no data, or with data
\* whose category list is empty, shows "No Data Available" and evaluates no
\* aggregate and derives no local selection state.
C15_NoDataBoundary ==
    \A c \in Charts :
        (~props[c].isLoading /\ props[c].data \in {"undefined", "empty"})
            => (view[c] = "nodata" /\ evaluated[c] = {})

\* C16: a chart rendered with isLoading true shows the skeleton and
\* evaluates no derivation, whatever data it was given.
C16_LoadingDerivesNothing ==
    \A c \in Charts :
        (props[c].isLoading /\ props[c].data \in DataKinds)
            => (view[c] = "skeleton" /\ evaluated[c] = {})

\* ---------------------------------------------- aggregation functions --
\* The functions are evaluated on bounded inputs.  Numbers are exact: the
\* inputs are chosen so that every product and quotient below is an integer
\* or is compared after cross-multiplication.
MaxCount == 6

\* data.timePoints of the function inputs, as parseISO reads them
\* (year, month, day): two days of one week, a day of the next week, and a
\* day of the next quarter.
FnDates == << <<2023, 1, 2>>, <<2023, 1, 3>>, <<2023, 1, 10>>, <<2023, 4, 5>> >>

\* A TimeLineData with one experience level: has is whether data.data holds
\* an entry for the level, counts[i] is the count of time point i, -1 when
\* the entry has no such key.
TimelineInputs ==
    {[fn |-> "timeline", has |-> TRUE, counts |-> c] :
        c \in [1..Len(FnDates) -> -1..MaxCount]}
    \cup {[fn |-> "timeline", has |-> FALSE,
           counts |-> [i \in 1..Len(FnDates) |-> -1]]}

\* x || 0 for a count that may be missing
OrZero(x) == IF x < 0 THEN 0 ELSE x

\* Math.round(sum / count) for sum >= 0, count > 0
Round(sum, count) == (2 * sum + count) \div (2 * count)

IsLeap(y) == (y % 4 = 0 /\ y % 100 # 0) \/ y % 400 = 0

MonthLength(y, m) ==
    IF m = 2 THEN (IF IsLeap(y) THEN 29 ELSE 28)
    ELSE IF m \in {4, 6, 9, 11} THEN 30 ELSE 31

RECURSIVE DaysBefore(_, _)
DaysBefore(y, m) ==
    IF m = 1 THEN 0 ELSE DaysBefore(y, m - 1) + MonthLength(y, m - 1)

\* new Date(year, 0, 1).getDay(): 0 is Sunday
JanuaryFirstDay(y) ==
    (1 + 5 * ((y - 1) % 4) + 4 * ((y - 1) % 100) + 6 * ((y - 1) % 400)) % 7

\* getWeekOfYear: whole days since January 1st (local time without a
\* daylight-saving shift), then Math.ceil((days + getDay + 1) / 7).
getWeekOfYear(date) ==
    LET days == DaysBefore(date[1], date[2]) + date[3] - 1
    IN  (days + JanuaryFirstDay(date[1]) + 1 + 6) \div 7

\* getQuarter: `Q${quarter} ${year}`
getQuarter(date) == <<((date[2] - 1) \div 3) + 1, date[1]>>

\* Years in which an evaluation may take place: new Date().getFullYear().
CurrentYears == {2023, 2024}

\* The date offset days after the first day of month m of year y.
RECURSIVE DateAfter(_, _, _)
DateAfter(y, m, offset) ==
    IF offset < MonthLength(y, m) THEN <<y, m, offset + 1>>
    ELSE IF m = 12 THEN DateAfter(y + 1, 1, offset - MonthLength(y, m))
    ELSE DateAfter(y, m + 1, offset - MonthLength(y, m))

\* getDateOfWeek: (weekNum - 1) * 7 days after January 1st of the current
\* year.
getDateOfWeek(weekNum, year) == DateAfter(year, 1, (weekNum - 1) * 7)

MonthNames == <<"Jan", "Feb", "Mar", "Apr", "May", "Jun",
                "Jul", "Aug", "Sep", "Oct", "Nov", "Dec">>

\* format(weekDate, "MMM dd"): month abbreviation and two-digit day
FormatMMMdd(date) == <<MonthNames[date[2]], date[3]>>

\* The month abbreviations in the order of string comparison.
MonthsAlphabetical == <<"Apr", "Aug", "Dec", "Feb", "Jan", "Jul",
                        "Jun", "Mar", "May", "Nov", "Oct", "Sep">>

AlphabeticalRank(name) ==
    CHOOSE i \in 1..Len(MonthsAlphabetical) : MonthsAlphabetical[i] = name

\* String comparison of two labels: "MMM dd" of a week, `Q${quarter} ${year}`
\* of a quarter.
LabelBefore(a, b, timeInterval) ==
    IF timeInterval = "Weekly"
    THEN \/ AlphabeticalRank(a[1]) < AlphabeticalRank(b[1])
         \/ a[1] = b[1] /\ a[2] < b[2]
    ELSE \/ a[1] < b[1]
         \/ a[1] = b[1] /\ a[2] < b[2]

\* Object.keys(...).sort(): the labels in the order of string comparison.
RECURSIVE SortLabels(_, _)
SortLabels(S, timeInterval) ==
    IF S = {} THEN <<>>
    ELSE LET first == CHOOSE a \in S :
                          \A b \in S \ {a} : LabelBefore(a, b, timeInterval)
         IN  <<first>> \o SortLabels(S \ {first}, timeInterval)

\* weekGroups / quarterGroups after the forEach over data.timePoints:
\* keys[i] is the bucket of time point i.
RECURSIVE Groups(_, _)
Groups(keys, counts) ==
    IF Len(keys) = 0 THEN <<>>
    ELSE LET n == Len(keys)
             g == Groups(SubSeq(keys, 1, n - 1), SubSeq(counts, 1, n - 1))
             k == keys[n]
             v == OrZero(counts[n])
         IN  IF k \in DOMAIN g
             THEN [g EXCEPT ![k] = [sum |-> @.sum + v, count |-> @.count + 1]]
             ELSE [x \in DOMAIN g \cup {k} |->
                      IF x = k THEN [sum |-> v, count |-> 1] ELSE g[x]]

\* The sum of a bucket, without the division.
BucketSum(stats) == stats.sum

\* Math.round(stats.sum / stats.count)
BucketValue(stats) == Round(stats.sum, stats.count)

WeekKeys == [i \in 1..Len(FnDates) |-> getWeekOfYear(FnDates[i])]
QuarterKeys == [i \in 1..Len(FnDates) |-> getQuarter(FnDates[i])]

\* aggregatedData[expLevel] of JobPostingsTimeLine.getAggregatedData for the
\* level of input a; reading a key of a missing entry throws a TypeError.
\* Under "Monthly" the time points are those of the data (their indices).
TLAggregated(a, timeInterval, year) ==
    IF timeInterval = "Monthly"
    THEN [threw |-> FALSE, has |-> a.has,
          timePoints |-> [i \in 1..Len(FnDates) |-> i], data |-> a.counts]
    ELSE IF ~a.has THEN [threw |-> TRUE]
    ELSE IF timeInterval = "Weekly"
    THEN LET g == Groups(WeekKeys, a.counts)
             label(w) == FormatMMMdd(getDateOfWeek(w, year))
             labels == {label(w) : w \in DOMAIN g}
         IN  [threw |-> FALSE, has |-> TRUE,
              timePoints |-> SortLabels(labels, timeInterval),
              data |-> [lab \in labels |->
                  BucketValue(g[CHOOSE w \in DOMAIN g : label(w) = lab])]]
    ELSE LET g == Groups(QuarterKeys, a.counts)
         IN  [threw |-> FALSE, has |-> TRUE,
              timePoints |-> SortLabels(DOMAIN g, timeInterval),
              data |-> [q \in DOMAIN g |-> BucketValue(g[q])]]

TimeIntervals == {"Weekly", "Monthly", "Quarterly"}

\* One render of JobPostingsTimeLine, in a given year, evaluates
\* getAggregatedData().
TLGetAggregatedData(timeInterval, year) ==
    /\ arg.fn = "timeline"
    /\ res' = [fn |-> "TLAggregated", timeInterval |-> timeInterval,
               year |-> year, out |-> TLAggregated(arg, timeInterval, year)]
    /\ UNCHANGED <<storeVars, loading, dirty, hover, last, rgVars, bcVars,
                   hpVars, tlVars, propVars, arg>>

\* Maximum of a non-empty set of numbers, 0 for the empty set.
MaxOf(S) == IF S = {} THEN 0 ELSE CHOOSE x \in S : \A y \in S : y <= x

\* The maxCount loop of the timeline's draw effect and the y scale domain
\* [0, maxCount * 1.1], in tenths; maxCount is also the divisor of the brush
\* area.  Reading a key of a missing entry throws a TypeError.
TLYScale(a, timeInterval, year) ==
    LET agg == TLAggregated(a, timeInterval, year)
    IN  IF agg.threw THEN [threw |-> TRUE]
        ELSE IF ~agg.has THEN [threw |-> TRUE]
        ELSE LET maxCount ==
                     MaxOf({OrZero(agg.data[t]) : t \in ToSet(agg.timePoints)})
             IN  [threw |-> FALSE, maxCount |-> maxCount,
                  domain |-> <<0, maxCount * 11>>]

\* The draw effect of JobPostingsTimeLine builds its y scale.
TLDraw(timeInterval, year) ==
    /\ arg.fn = "timeline"
    /\ res' = [fn |-> "TLYScale", timeInterval |-> timeInterval,
               out |-> TLYScale(arg, timeInterval, year)]
    /\ UNCHANGED <<storeVars, loading, dirty, hover, last, rgVars, bcVars,
                   hpVars, tlVars, propVars, arg>>

\* expLevelTotals[level] of HiringPulseChart.getAggregatedData: the keys of
\* data.data[level] || {} are summed.
HPTotal(a) ==
    LET keys == IF a.has THEN {i \in DOMAIN a.counts : a.counts[i] >= 0}
                ELSE {}
    IN  [threw |-> FALSE,
         total |-> SumOver([i \in keys |-> OrZero(a.counts[i])], keys)]

\* Values of Math.random() * 0.5 + 0.5, in tenths.
RandomWeights == {5, 7, 9}

\* industryData[level][industry]:
\* Math.round(expLevelTotals[level] * industryWeight / industries.length),
\* with the five industries of the component.
HPIndustryCount(a, industryWeight) ==
    Round(HPTotal(a).total * industryWeight, 10 * 5)

\* One render of HiringPulseChart evaluates getAggregatedData(); the weight
\* is drawn anew in each evaluation.
HPGetAggregatedData(industryWeight) ==
    /\ arg.fn = "timeline"
    /\ res' = [fn |-> "HPTotal", out |-> HPTotal(arg),
               byIndustry |-> HPIndustryCount(arg, industryWeight)]
    /\ UNCHANGED <<storeVars, loading, dirty, hover, last, rgVars, bcVars,
                   hpVars, tlVars, propVars, arg>>

\* Salary values of the function inputs.
SalaryValues == {0, 10, 20, 30, 50}
MaxValues == 3

\* A RidgelineData with one job title: has is whether data.salaryRanges
\* holds an entry for it, values is range.values.
RidgelineInputs ==
    {[fn |-> "ridgeline", has |-> TRUE, values |-> v] :
        v \in UNION {[1..n -> SalaryValues] : n \in 0..MaxValues}}
    \cup {[fn |-> "ridgeline", has |-> FALSE, values |-> <<>>]}

\* [...range.values].sort((a, b) => a - b)
RECURSIVE InsertAsc(_, _)
InsertAsc(s, x) ==
    IF s = <<>> THEN <<x>>
    ELSE IF x < Head(s) THEN <<x>> \o s
    ELSE <<Head(s)>> \o InsertAsc(Tail(s), x)

RECURSIVE SortAsc(_)
SortAsc(s) ==
    IF s = <<>> THEN <<>>
    ELSE InsertAsc(SortAsc(SubSeq(s, 1, Len(s) - 1)), s[Len(s)])

\* d3.median of a sorted non-empty array
Median(sorted) ==
    LET n == Len(sorted)
    IN  IF n % 2 = 1 THEN sorted[(n + 1) \div 2]
        ELSE (sorted[n \div 2] + sorted[(n \div 2) + 1]) \div 2

\* x || y for numbers
OrElse(x, y) == IF x = 0 THEN y ELSE x

\* A single value kept as both ends of its range.
SingleValueRangeFlat(median) == <<median, median>>

\* min = median * 0.9, max = median * 1.1
SingleValueRange(median) == <<(median * 9) \div 10, (median * 11) \div 10>>

\* The record jobTitlesByMedian holds for the job title of input a; entries
\* without a non-empty values array are filtered out.
RGStatistics(a) ==
    IF ~a.has \/ Len(a.values) = 0 THEN [threw |-> FALSE, rows |-> 0]
    ELSE LET sortedValues == SortAsc(a.values)
             n == Len(sortedValues)
             median == OrElse(Median(sortedValues), OrElse(sortedValues[1], 0))
             range == IF n = 1 THEN SingleValueRange(median)
                      ELSE <<OrElse(sortedValues[1], 0),
                             OrElse(sortedValues[n], 0)>>
         IN  [threw |-> FALSE, rows |-> 1, median |-> median,
              min |-> range[1], max |-> range[2], count |-> n,
              rangeSize |-> range[2] - range[1]]

\* The ridgeline's x scale domain [globalMin - padding, globalMax + padding]
\* in twentieths, padding = Math.max((globalMax - globalMin) * 0.05, 1000).
RGXDomain(a) ==
    LET st == RGStatistics(a)
        min0 == OrElse(st.min, 0)
        max0 == OrElse(st.max, 100000)
        globalMin == IF min0 = max0 THEN (min0 * 8) \div 10 ELSE min0
        globalMax == IF min0 = max0 THEN (max0 * 12) \div 10 ELSE max0
        padding == IF globalMax - globalMin > 20000
                   THEN globalMax - globalMin ELSE 20000
    IN  IF st.rows = 0 THEN [threw |-> FALSE, rows |-> 0]
        ELSE [threw |-> FALSE, rows |-> 1,
              domain |-> <<20 * globalMin - padding, 20 * globalMax + padding>>]

\* The ridgeline's draw effect computes the statistics of each job title.
RGComputeStatistics ==
    /\ arg.fn = "ridgeline"
    /\ res' = [fn |-> "RGStatistics", out |-> RGStatistics(arg)]
    /\ UNCHANGED <<storeVars, loading, dirty, hover, last, rgVars, bcVars,
                   hpVars, tlVars, propVars, arg>>

\* The ridgeline's draw effect builds its x scale.
RGDraw ==
    /\ arg.fn = "ridgeline"
    /\ res' = [fn |-> "RGXDomain", out |-> RGXDomain(arg)]
    /\ UNCHANGED <<storeVars, loading, dirty, hover, last, rgVars, bcVars,
                   hpVars, tlVars, propVars, arg>>

\* A LocationIndustryData with one location: has is whether data.data holds
\* an entry for it, salaries[i] is its salary in industry i, -1 when the
\* entry has no such key.
BarChartInputs ==
    {[fn |-> "barchart", has |-> TRUE, salaries |-> f] :
        f \in [IndustrySet -> {-1, 0, 90, 120}]}
    \cup {[fn |-> "barchart", has |-> FALSE,
           salaries |-> [i \in IndustrySet |-> -1]]}

\* avgSalary of an industry in the default-selection effect:
\* data.data[location] && data.data[location][industry] > 0 guards the sum.
BCAvgSalary(a, ind) ==
    LET counted == a.has /\ a.salaries[ind] > 0
        total == IF counted THEN a.salaries[ind] ELSE 0
        count == IF counted THEN 1 ELSE 0
    IN  IF count > 0 THEN total \div count ELSE 0

BCIndustryTotals(a) ==
    [threw |-> FALSE, avgSalary |-> [i \in IndustrySet |-> BCAvgSalary(a, i)]]

\* maxSalary of the bar chart's draw effect and the y scale domain
\* [0, maxSalary * 1.1], in tenths.
BCYScale(a) ==
    LET maxSalary ==
            MaxOf({a.salaries[i] :
                     i \in {j \in IndustrySet : a.has /\ a.salaries[j] > 0}})
    IN  [threw |-> FALSE, domain |-> <<0, maxSalary * 11>>]

\* The bar chart's default-selection effect ranks the industries.
BCRank ==
    /\ arg.fn = "barchart"
    /\ res' = [fn |-> "BCIndustryTotals", out |-> BCIndustryTotals(arg)]
    /\ UNCHANGED <<storeVars, loading, dirty, hover, last, rgVars, bcVars,
                   hpVars, tlVars, propVars, arg>>

\* The bar chart's draw effect builds its y scale.
BCDraw ==
    /\ arg.fn = "barchart"
    /\ res' = [fn |-> "BCYScale", out |-> BCYScale(arg)]
    /\ UNCHANGED <<storeVars, loading, dirty, hover, last, rgVars, bcVars,
                   hpVars, tlVars, propVars, arg>>

\* Number of job titles with salary data in the inputs of the title
\* selection.
MaxTitles == 6

\* jobTitlesByMedian as the input of the sort: the job titles are numbered
\* in the order of localeCompare, median[t] and rangeSize[t] are the
\* statistics of title t, all different: the medians are the rotations of
\* the ascending and of the descending order, the range sizes ascend or
\* descend.
TitleInputs ==
    {[fn |-> "titles", median |-> m, rangeSize |-> r] :
        m \in {[t \in 1..MaxTitles |-> ((t + k) % MaxTitles) + 1] :
                  k \in 1..MaxTitles}
              \cup {[t \in 1..MaxTitles |-> MaxTitles - ((t + k) % MaxTitles)] :
                  k \in 1..MaxTitles},
        r \in {[t \in 1..MaxTitles |-> t],
               [t \in 1..MaxTitles |-> MaxTitles + 1 - t]}}

SortOrders == {"median", "range", "alphabetical"}

\* The compare function chosen by sortBy puts title t before title u.
SortsBefore(a, sortBy, t, u) ==
    CASE sortBy = "range" -> a.rangeSize[t] > a.rangeSize[u]
      [] sortBy = "alphabetical" -> t < u
      [] OTHER -> a.median[t] > a.median[u]

\* [...jobTitlesByMedian].sort(compare) restricted to the titles S
RECURSIVE SortTitles(_, _, _)
SortTitles(a, sortBy, S) ==
    IF S = {} THEN <<>>
    ELSE LET first == CHOOSE t \in S :
                          \A u \in S \ {t} : SortsBefore(a, sortBy, t, u)
         IN  <<first>> \o SortTitles(a, sortBy, S \ {first})

\* displayedTitles: slice(0, Math.min(5, length)) in "Top 5" mode,
\* slice(0, Math.min(15, length)) in "All" mode.
DisplayedTitles(a, sortBy, showTopTitles) ==
    LET displayJobTitles == SortTitles(a, sortBy, DOMAIN a.median)
        n == Len(displayJobTitles)
        limit == IF showTopTitles THEN 5 ELSE 15
    IN  SubSeq(displayJobTitles, 1, IF limit < n THEN limit ELSE n)

\* The ridgeline's draw effect selects the job titles to display.
RGSelectTitles(sortBy, showTopTitles) ==
    /\ arg.fn = "titles"
    /\ res' = [fn |-> "DisplayedTitles", sortBy |-> sortBy,
               showTopTitles |-> showTopTitles,
               out |-> [threw |-> FALSE,
                        titles |-> DisplayedTitles(arg, sortBy, showTopTitles)]]
    /\ UNCHANGED <<storeVars, loading, dirty, hover, last, rgVars, bcVars,
                   hpVars, tlVars, propVars, arg>>

FnInputs == TimelineInputs \cup RidgelineInputs \cup BarChartInputs
               \cup TitleInputs

InitFunctions ==
    /\ InitDashboard
    /\ arg \in FnInputs
    /\ res = NoArg

FnNext ==
    \/ \E i \in TimeIntervals, y \in CurrentYears : TLGetAggregatedData(i, y)
    \/ \E i \in TimeIntervals, y \in CurrentYears : TLDraw(i, y)
    \/ \E w \in RandomWeights : HPGetAggregatedData(w)
    \/ RGComputeStatistics
    \/ RGDraw
    \/ BCRank
    \/ BCDraw
    \/ \E o \in SortOrders, top \in BOOLEAN : RGSelectTitles(o, top)

\* The aggregation functions applied to every input.
SpecFunctions == InitFunctions /\ [][FnNext]_vars

\* Time point i of the input falls in bucket b.
InBucket(i, b, timeInterval, year) ==
    IF timeInterval = "Weekly"
    THEN FormatMMMdd(getDateOfWeek(getWeekOfYear(FnDates[i]), year)) = b
    ELSE getQuarter(FnDates[i]) = b

\* C17: under weekly and quarterly granularity every time point falls in a
\* bucket, and the value of every bucket is the sum of the raw counts of its
\* time points divided by their number, rounded to the nearest integer.
C17_BucketAverage ==
    (res.fn = "TLAggregated" /\ res.timeInterval # "Monthly"
                             /\ ~res.out.threw)
    => /\ \A i \in 1..Len(FnDates) :
              \E b \in ToSet(res.out.timePoints) :
                  InBucket(i, b, res.timeInterval, res.year)
       /\ \A b \in ToSet(res.out.timePoints) :
              LET P == {i \in 1..Len(FnDates) :
                            InBucket(i, b, res.timeInterval, res.year)}
                  s == SumOver([i \in P |-> OrZero(arg.counts[i])], P)
                  n == Cardinality(P)
                  v == res.out.data[b]
              IN  /\ n > 0
                  /\ 2 * v * n - 2 * s <= n
                  /\ 2 * s - 2 * v * n <= n

\* Counts 4 and 6 on the two days of the first week give the bucket 5.
C17_Witness ==
    /\ res.fn = "TLAggregated" /\ res.timeInterval = "Weekly"
    /\ arg.has /\ arg.counts[1] = 4 /\ arg.counts[2] = 6
    /\ res.out.data[<<"Jan", 1>>] = 5

\* C18: for a job title with a non-empty value list the median is the
\* middle of the ascending order (at most half of the values lie below it
\* and at most half above, and it is one of the values when their number is
\* odd); with two or more values min and max are the smallest and the
\* largest value; with exactly one value v they are v less 10% and v plus
\* 10%.
C18_RidgelineStatistics ==
    (res.fn = "RGStatistics" /\ res.out.rows = 1)
    => LET v == arg.values
           n == Len(v)
           vals == {v[i] : i \in 1..n}
           m == res.out.median
           below == Cardinality({i \in 1..n : v[i] < m})
           above == Cardinality({i \in 1..n : v[i] > m})
       IN  /\ 2 * below <= n /\ 2 * above <= n
           /\ n % 2 = 1 => m \in vals
           /\ n >= 2 => /\ res.out.min \in vals
                        /\ res.out.max \in vals
                        /\ \A x \in vals : res.out.min <= x /\ x <= res.out.max
           /\ n = 1 => /\ 10 * res.out.min = 9 * v[1]
                       /\ 10 * res.out.max = 11 * v[1]

\* The single value 50 gives min 45 and max 55.
C18_Witness ==
    /\ res.fn = "RGStatistics" /\ arg.fn = "ridgeline"
    /\ arg.values = <<50>>
    /\ res.out.median = 50 /\ res.out.min = 45 /\ res.out.max = 55

\* C19: every aggregation completes on data with missing keys: none of the
\* timeline buckets, the timeline's maximum, the hiring pulse totals, the
\* bar chart's ranking and the ridgeline statistics throws.
C19_MissingKeysTolerated ==
    res.fn \in {"TLAggregated", "TLYScale", "HPTotal", "RGStatistics",
                "BCIndustryTotals"}
    => ~res.out.threw

\* The input holds at least one value.
NonEmptyInput ==
    \/ arg.fn = "timeline" /\ arg.has /\ \E i \in DOMAIN arg.counts :
                                            arg.counts[i] >= 0
    \/ arg.fn = "ridgeline" /\ arg.has /\ Len(arg.values) > 0
    \/ arg.fn = "barchart" /\ arg.has /\ \E i \in IndustrySet :
                                            arg.salaries[i] >= 0

\* C20: on every non-empty input the domain of each value scale has its
\* lower bound below its upper bound, and the maximum the timeline's brush
\* area divides by is not zero.
C20_ScalesNotDegenerate ==
    (res.fn \in {"TLYScale", "RGXDomain", "BCYScale"} /\ NonEmptyInput
                                                      /\ ~res.out.threw)
    => /\ res.out.domain[1] < res.out.domain[2]
       /\ res.fn = "TLYScale" => res.out.maxCount # 0

\* C21: a second evaluation of a chart's aggregation on the same data and
\* granularity returns what the first returned: the hiring pulse's count of
\* an industry and the timeline's aggregate with its bucket labels.
C21_AggregationIsPure ==
    [][ /\ (res.fn = "HPTotal" /\ res'.fn = "HPTotal" /\ arg' = arg)
            => res'.byIndustry = res.byIndustry
        /\ ( /\ res.fn = "TLAggregated" /\ res'.fn = "TLAggregated"
             /\ res'.timeInterval = res.timeInterval /\ arg' = arg )
            => res'.out = res.out ]_vars

\* C22: mounting, loading and rendering never write the filter store: for
\* as long as there was no user event the four fields are empty.
C22_OnlyUsersWriteFilters ==
    last = NoEvent => filters = EmptyFilters

\* No value occurs twice in the array s.
IsDuplicateFree(s) == \A i, j \in 1..Len(s) : i # j => s[i] # s[j]

C24_ActiveMatchesFilter ==
    ( /\ ~loading["BC"] /\ dirty["BC"] = {}
      /\ last.chart = "BC" /\ last.kind \in {"click", "control"} )
    => ToSet(activeIndustries) = ToSet(filters.industries)

\* C25: the default-selection effect comes to rest: the bar chart is never
\* in a state in which a commit runs the effect and the effect's update
\* schedules the same commit again.
C25_DefaultSelectionTerminates ==
    ~loading["BC"] => ~BCLoops

\* C26: in the selectedLevels variant of the timeline, when the chart has
\* loaded and committed everything, filters.experienceLevels and
\* selectedLevels hold the same levels.
C26_SelectedLevelsInSync ==
    (variant = "selected" /\ ~loading["TL"] /\ Settled("TL"))
    => ToSet(filters.experienceLevels) = ToSet(selectedLevels)

\* C27: for as long as Clear of the bar chart is the most recent user
\* event, activeIndustries and filters.industries are empty and there is
\* no active item.
C27_ClearStays ==
    (last.chart = "BC" /\ last.value = "clear")
    => /\ activeIndustries = <<>>
       /\ filters.industries = <<>>
       /\ activeItem = NoItem

\* C28: when the timeline has loaded and committed everything,
\* visibleExperienceLevels is non-empty, holds no level twice and holds
\* levels of the data only.
C28_VisibleLevelsWellFormed ==
    (~loading["TL"] /\ Settled("TL") /\ Len(ExperienceLevels) > 0)
    => /\ Len(visibleExperienceLevels) > 0
       /\ IsDuplicateFree(visibleExperienceLevels)
       /\ ToSet(visibleExperienceLevels) \subseteq LevelSet

\* A click on the only visible level has left it visible.
C28_Witness ==
    /\ Clean("TL") /\ last.chart = "TL" /\ last.kind = "click"
    /\ visibleExperienceLevels = <<last.value>>

\* C29: in "Top 5" mode the titles displayed are the five (or fewer) with
\* the highest median, under every sort order.
C29_TopFiveByMedian ==
    (res.fn = "DisplayedTitles" /\ res.showTopTitles)
    => LET shown == ToSet(res.out.titles)
           all == DOMAIN arg.median
       IN  /\ Cardinality(shown) = IF Cardinality(all) < 5
                                   THEN Cardinality(all) ELSE 5
           /\ \A t \in shown, u \in all \ shown :
                  arg.median[t] >= arg.median[u]

\* The period labelled a is earlier than the period labelled b: weeks by
\* month and day of their first day, quarters by year and quarter.
EarlierPeriod(a, b, timeInterval) ==
    LET month(name) == CHOOSE i \in 1..Len(MonthNames) : MonthNames[i] = name
    IN  IF timeInterval = "Weekly"
        THEN \/ month(a[1]) < month(b[1])
             \/ a[1] = b[1] /\ a[2] < b[2]
        ELSE \/ a[2] < b[2]
             \/ a[2] = b[2] /\ a[1] < b[1]

\* C30: the time points of the weekly and the quarterly aggregate are in
\* chronological order: a label that comes earlier in the list is the label
\* of an earlier period.
C30_TimePointsChronological ==
    (res.fn = "TLAggregated" /\ res.timeInterval # "Monthly"
                             /\ ~res.out.threw)
    => \A i, j \in 1..Len(res.out.timePoints) :
           i < j => EarlierPeriod(res.out.timePoints[i], res.out.timePoints[j],
                                  res.timeInterval)

====
